---- MODULE Spec2Model ----
(***************************************************************************)
(* Parakeet transcription server (src/parakeet-server/server.py).          *)
(*                                                                         *)
(* One uvicorn process, one asyncio event loop.  Every handler is an       *)
(* `async def`, so it runs on the loop and holds it until it reaches an    *)
(* `await`.  The only await of the service is `await audio.read()` (line   *)
(* 78); everything else, get_model() and model.transcribe() included, is   *)
(* synchronous.  `running` is the task that holds the loop (0 = none).     *)
(* Other OS processes are not scheduled by the loop: ExternalRemove may    *)
(* fire at any time.                                                       *)
(***************************************************************************)
EXTENDS Integers, Sequences, FiniteSets, TLC

\* ---------------------------------------------------------------- bounds
MaxReq == 2        \* number of POST /transcribe requests of a run
MaxHealth == 1     \* number of GET /health requests of a run
MaxRemove == 1     \* number of files other processes remove during a run

Reqs == 1..MaxReq

\* ------------------------------------------------------------ Python data
None == "None"
\* line 25: _model = None
NoModel == 0

\* Exceptions are records; str(e) is the message.
Exc(type, msg) == [type |-> type, msg |-> msg]
Str(e) == e.msg

\* Optional values of the model result: None or a list.
PyNone == [t |-> "None", v |-> <<>>]
PyList(s) == [t |-> "list", v |-> s]
\* Python truth value of an optional list (None and [] are falsy).
Truthy(x) == x.t = "list" /\ Len(x.v) > 0

\* Segments as the model returns them; json = FALSE marks a value that
\* json.dumps cannot serialise (JSONResponse renders in its constructor).
SegA == [start |-> 0, end |-> 1, text |-> "a", json |-> TRUE]
SegB == [start |-> 1, end |-> 2, text |-> "b", json |-> TRUE]
SegX == [start |-> 2, end |-> 3, text |-> "x", json |-> FALSE]

\* Results of model.transcribe: with no `segments` attribute, with
\* segments None, empty, well-formed, and not serialisable.
Results ==
    { [text |-> "hi", hasSegments |-> FALSE, segments |-> PyNone],
      [text |-> "hi", hasSegments |-> TRUE, segments |-> PyNone],
      [text |-> "",   hasSegments |-> TRUE, segments |-> PyList(<<>>)],
      [text |-> "ab", hasSegments |-> TRUE, segments |-> PyList(<<SegA, SegB>>)],
      [text |-> "x",  hasSegments |-> TRUE, segments |-> PyList(<<SegX>>)] }

NoResult == [text |-> "", hasSegments |-> FALSE, segments |-> PyNone]

\* Upload filenames: None, or a sequence of characters.
NoFilename == [has |-> FALSE, name |-> <<>>]
Filename(s) == [has |-> TRUE, name |-> s]
Filenames == { NoFilename, Filename(<<>>), Filename(<<"a", ".", "f">>), Filename(<<"a">>) }
ContentTypes == { None, "application/octet-stream", "audio/wav", "text/plain" }
DefaultSuffix == <<".", "w", "e", "b", "m">>

\* ------------------------------------------------------- pure functions
\* str.rfind, 1-based (0 when absent).
RFind(s, c) ==
    LET I == { i \in 1..Len(s) : s[i] = c }
    IN IF I = {} THEN 0 ELSE CHOOSE i \in I : \A j \in I : j <= i

\* PurePath.name: the final path component.
PathName(p) == SubSeq(p, RFind(p, "/") + 1, Len(p))

\* PurePath.suffix: from the last dot of the name, unless the dot is the
\* first or the last character of the name.
PathSuffix(p) ==
    LET name == PathName(p)
        i == RFind(name, ".")
    IN IF 1 < i /\ i < Len(name) THEN SubSeq(name, i, Len(name)) ELSE <<>>

\* line 76
SuffixOf(filename) ==
    IF filename.has /\ Len(filename.name) > 0 THEN PathSuffix(filename.name) ELSE DefaultSuffix

\* line 73 (the value is never read afterwards)
ContentTypeOf(ct) == IF ct # None THEN ct ELSE "application/octet-stream"

\* Variant of MapSegments: a falsy segments value is passed through.
MapSegments_PassThrough(result) ==
    IF ~result.hasSegments
    THEN [t |-> "missing", v |-> <<>>]
    ELSE IF Truthy(result.segments)
    THEN PyList([ i \in 1..Len(result.segments.v) |->
                    [start |-> result.segments.v[i].start,
                     end   |-> result.segments.v[i].end,
                     text  |-> result.segments.v[i].text] ])
    ELSE result.segments

\* Variant of MapSegments: the segments come out in reverse order.
MapSegments_Reversed(result) ==
    IF result.hasSegments /\ Truthy(result.segments)
    THEN PyList([ i \in 1..Len(result.segments.v) |->
                    [start |-> result.segments.v[Len(result.segments.v) + 1 - i].start,
                     end   |-> result.segments.v[Len(result.segments.v) + 1 - i].end,
                     text  |-> result.segments.v[Len(result.segments.v) + 1 - i].text] ])
    ELSE PyList(<<>>)

\* lines 89-92: the segments of the response body.
MapSegments(result) ==
    IF result.hasSegments /\ Truthy(result.segments)
    THEN PyList([ i \in 1..Len(result.segments.v) |->
                    [start |-> result.segments.v[i].start,
                     end   |-> result.segments.v[i].end,
                     text  |-> result.segments.v[i].text] ])
    ELSE PyList(<<>>)

\* json.dumps inside JSONResponse(...) raises on a value it cannot encode.
Serialisable(result) ==
    ~ (result.hasSegments /\ Truthy(result.segments))
    \/ \A i \in 1..Len(result.segments.v) : result.segments.v[i].json

\* lines 87-93: the body of the 200 response.
MapResponse(result) == [text |-> result.text, segments |-> MapSegments(result)]

NoBody == [text |-> "", segments |-> [t |-> "missing", v |-> <<>>]]
NoDetail == <<"", 0>>

\* What a handler is about to produce: a return value or a raised exception.
Return200(body) == [kind |-> "return", status |-> 200, body |-> body, detail |-> NoDetail]
\* line 96
HTTPException500(e) == [kind |-> "HTTPException", status |-> 500, body |-> NoBody, detail |-> Str(e)]
\* An exception that leaves the handler: the framework answers 500
\* "Internal Server Error" and keeps serving.
Unhandled(e) == [kind |-> "unhandled", status |-> 500, body |-> NoBody, detail |-> NoDetail]
\* The handler was cancelled: nothing is sent.
Abandoned == [kind |-> "cancelled", status |-> 0, body |-> NoBody, detail |-> NoDetail]
NoOutcome == [kind |-> "none", status |-> 0, body |-> NoBody, detail |-> NoDetail]

LoadError(n) == Exc("LoadError", <<"model construction failed", n>>)
InferenceError == Exc("InferenceError", <<"transcribe failed", 0>>)
EncodeError == Exc("TypeError", <<"not JSON serializable", 0>>)
UploadError == Exc("OSError", <<"upload i/o failed", 0>>)
FileNotFound == Exc("FileNotFoundError", <<"no such file", 0>>)

\* line 54
HealthBody == [status |-> "ok", model |-> "parakeet-tdt-0.6b-v3"]
NoHealth == [status |-> "", model |-> ""]

\* ---------------------------------------------------------------- state
VARIABLES
    clip,        \* the upload the clients post in this run: its filename and
                 \* the result the model computes for its audio
    srv,         \* "main" | "startup" | "preloading" | "serving" | "exited"
    envPreload,  \* os.environ["PRELOAD"] == "1"
    model,       \* _model: None, or the instance (numbered by construction)
    nLoads,      \* calls of from_pretrained started so far
    files,       \* names of the files that exist in the temp directory
    nextName,    \* names handed out by NamedTemporaryFile so far
    running,     \* request task holding the event loop, 0 when none
    req,         \* per request: position and locals of transcribe()
    healthN,     \* health requests served
    healthResp,  \* body of the last health response
    nRemoved     \* files removed by other processes so far

vars == <<clip, srv, envPreload, model, nLoads, files, nextName, running, req,
          healthN, healthResp, nRemoved>>

NoFile == [n |-> 0, suffix |-> <<>>]

NewReq ==
    [pc       |-> "new",
     file     |-> NoFile,     \* tmp.name
     isOpen   |-> FALSE,      \* tmp is open
     tmp_path |-> NoFile,     \* assigned at line 80
     io       |-> "none",     \* upload: none | ok | read_fail | write_fail | cancelled
     loaded   |-> 0,          \* the construction this request started (0: none)
     peers    |-> {},         \* requests in flight when it started one
     got      |-> NoModel,    \* the model get_model returned
     invoked  |-> NoFile,     \* path model.transcribe was called with
     result   |-> NoResult,   \* what model.transcribe returned
     raised   |-> "none",     \* stage whose exception the except clause caught
     primary  |-> NoOutcome,  \* pending return value or exception before finally
     unlink   |-> "none",     \* os.unlink: none | ok | failed
     resp     |-> NoOutcome]  \* what the client received

\* The process before __main__ runs.  The upload posted during a run is
\* drawn here: every request of the run posts this clip, and the model,
\* when it succeeds, computes this result for it.  Which calls fail
\* (construction, upload i/o, inference, unlink) is chosen per request.
Init ==
    /\ clip \in [filename : Filenames, result : Results]
    /\ srv = "main"
    /\ envPreload \in BOOLEAN
    /\ model = NoModel
    /\ nLoads = 0
    /\ files = {}
    /\ nextName = 0
    /\ running = 0
    /\ req = [r \in Reqs |-> NewReq]
    /\ healthN = 0
    /\ healthResp = NoHealth
    /\ nRemoved = 0

Exists(path) == path \in files
InFlight == { r \in Reqs : req[r].pc \notin {"new", "done"} }

\* The Model Handle's readiness state, derived from _model and the
\* positions of the callers of get_model.
Loaders == { r \in Reqs : req[r].pc = "loading" }
HandleState ==
    IF Loaders # {} \/ srv = "preloading" THEN "Loading"
    ELSE IF model = NoModel THEN "Unloaded" ELSE "Ready"

\* -------------------------------------------------------------- get_model
\* Variant of NeedsLoad: the `is None` test is missing.
NeedsLoad_Always == TRUE

\* line 29
NeedsLoad == model = NoModel

\* Variant of ModelAfterLoad: _model is assigned before construction ends.
ModelAfterLoad_Early(ok) == nLoads

\* line 32: _model is assigned only when from_pretrained returns; when it
\* raises, the assignment does not happen.
ModelAfterLoad(ok) == IF ok THEN nLoads ELSE model

\* ------------------------------------------------------ process start-up
\* lines 110-119: --preload sets PRELOAD=1 in the environment.
Main(argPreload) ==
    /\ srv = "main"
    /\ envPreload' = (envPreload \/ argPreload)
    /\ srv' = "startup"
    /\ UNCHANGED <<clip, model, nLoads, files, nextName, running, req, healthN, healthResp, nRemoved>>

\* Variant of PreloadRequested: startup never looks at the flag.
PreloadRequested_Never == FALSE

\* line 107: os.environ.get("PRELOAD") == "1"
PreloadRequested == envPreload

\* lines 102-108, entering get_model (lines 27-31) when PRELOAD is set.
Startup ==
    /\ srv = "startup"
    /\ IF PreloadRequested /\ NeedsLoad
       THEN /\ srv' = "preloading"
            /\ nLoads' = nLoads + 1
       ELSE /\ srv' = "serving"
            /\ nLoads' = nLoads
    /\ UNCHANGED <<clip, envPreload, model, files, nextName, running, req, healthN, healthResp, nRemoved>>

\* lines 32-34 under startup: from_pretrained returns or raises.  An
\* exception leaves the startup handler and the server exits.
Preload(ok) ==
    /\ srv = "preloading"
    /\ model' = ModelAfterLoad(ok)
    /\ srv' = IF ok THEN "serving" ELSE "exited"
    /\ UNCHANGED <<clip, envPreload, nLoads, files, nextName, running, req, healthN, healthResp, nRemoved>>

\* ------------------------------------------------------------ GET /health
\* Variant of HealthReply: the body reports whether the model is loaded.
HealthReply_Stateful ==
    [status |-> IF model = NoModel THEN "loading" ELSE "ok", model |-> HealthBody.model]

\* line 54: the value the handler returns
HealthReply == HealthBody

\* lines 51-54
Health ==
    /\ srv = "serving"
    /\ running = 0
    /\ healthN < MaxHealth
    /\ healthN' = healthN + 1
    /\ healthResp' = HealthReply
    /\ UNCHANGED <<clip, srv, envPreload, model, nLoads, files, nextName, running, req, nRemoved>>

\* ------------------------------------------------------- POST /transcribe
\* lines 65-71
allowed_types ==
    { "audio/wav", "audio/x-wav", "audio/wave", "audio/mpeg", "audio/mp3",
      "audio/webm", "audio/ogg", "audio/flac", "audio/m4a", "audio/mp4",
      "audio/x-m4a", "application/octet-stream" }

\* Variant of Accepts: a content type outside allowed_types is rejected.
Accepts_Strict(content_type) == content_type \in allowed_types

\* lines 64-75: allowed_types and content_type are computed and never
\* compared; the handler goes on whatever the content type is.
Accepts(content_type) == TRUE

\* Variant of NewName: every request uses the same path.
NewName_Fixed(suffix) == [n |-> 1, suffix |-> suffix]

\* line 77: NamedTemporaryFile picks a name that no file has, ending in the
\* suffix.  Names are numbered in the order they are handed out.
NewName(suffix) == [n |-> nextName + 1, suffix |-> suffix]

\* lines 64-78: content type, suffix, NamedTemporaryFile(delete=False),
\* then the handler suspends in `await audio.read()`.
T_Start(r, ct) ==
    /\ srv = "serving"
    /\ running = 0
    /\ req[r].pc = "new"
    /\ r = nextName + 1      \* requests are numbered in the order they arrive
    /\ Accepts(ContentTypeOf(ct))
    /\ LET name == NewName(SuffixOf(clip.filename))
       IN /\ files' = files \cup {name}
          /\ req' = [req EXCEPT ![r].pc = "await_read",
                                ![r].file = name,
                                ![r].isOpen = TRUE]
    /\ nextName' = nextName + 1
    /\ UNCHANGED <<clip, srv, envPreload, model, nLoads, running, healthN, healthResp, nRemoved>>

\* Variant of Proceeds: a failed read or write is swallowed.
Proceeds_Always(io) == TRUE

\* lines 78-82: the handler reaches the try block only when neither
\* audio.read() nor tmp.write(content) raised.
Proceeds(io) == io = "ok"

\* Variant of Holder: the handler yields the loop after the upload is read.
Holder_Yield(r) == 0

\* lines 79-100: after `await audio.read()` returns there is no further
\* await in the handler; the resumed task keeps the event loop until it
\* returns or raises.
Holder(r) == r

\* lines 78-80: audio.read() returns or raises, tmp.write(content) succeeds
\* or raises, tmp_path = tmp.name; leaving the with block closes the file
\* and, because of delete=False, does not remove it.  An exception here is
\* outside the try block of line 82 and leaves the handler.
T_Resume(r, io) ==
    /\ srv = "serving"
    /\ running = 0
    /\ req[r].pc = "await_read"
    /\ IF Proceeds(io)
       THEN /\ req' = [req EXCEPT ![r].pc = "get_model",
                                  ![r].io = io,
                                  ![r].isOpen = FALSE,
                                  ![r].tmp_path = req[r].file]
            /\ running' = Holder(r)
       ELSE /\ req' = [req EXCEPT ![r].pc = "done",
                                  ![r].io = io,
                                  ![r].isOpen = FALSE,
                                  ![r].resp = Unhandled(UploadError)]
            /\ running' = 0
    /\ UNCHANGED <<clip, srv, envPreload, model, nLoads, files, nextName, healthN, healthResp, nRemoved>>

\* Variant of DuringLoad: the construction is awaited, which frees the loop.
DuringLoad_Awaited(r) == 0

\* line 32: from_pretrained(...) is a plain synchronous call, so the task
\* that makes it keeps the event loop while the construction runs.
DuringLoad(r) == r

\* line 78: the task is cancelled while suspended in `await audio.read()`
\* (the client went away).  CancelledError is raised at the await, inside
\* the with block and before the try of line 82: the file is closed, not
\* removed, and the handler ends without a response.
T_Cancel(r) ==
    /\ srv = "serving"
    /\ running = 0
    /\ req[r].pc = "await_read"
    /\ req' = [req EXCEPT ![r].pc = "done",
                          ![r].io = "cancelled",
                          ![r].isOpen = FALSE,
                          ![r].resp = Abandoned]
    /\ UNCHANGED <<clip, srv, envPreload, model, nLoads, files, nextName, running, healthN, healthResp, nRemoved>>

\* lines 84, 27-31: get_model() up to the call of from_pretrained.
T_GetModel(r) ==
    /\ running = r
    /\ req[r].pc = "get_model"
    /\ IF NeedsLoad
       THEN /\ nLoads' = nLoads + 1
            /\ req' = [req EXCEPT ![r].pc = "loading",
                                  ![r].loaded = nLoads + 1,
                                  ![r].peers = InFlight \ {r}]
            /\ running' = DuringLoad(r)
       ELSE /\ nLoads' = nLoads
            /\ req' = [req EXCEPT ![r].pc = "transcribe",
                                  ![r].got = model]
            /\ running' = running
    /\ UNCHANGED <<clip, srv, envPreload, model, files, nextName, healthN, healthResp, nRemoved>>

\* lines 32-34, 95-96: from_pretrained returns (the model is published and
\* returned) or raises (caught by `except Exception`).
T_FromPretrained(r, ok) ==
    /\ running = r
    /\ req[r].pc = "loading"
    /\ model' = ModelAfterLoad(ok)
    /\ IF ok
       THEN req' = [req EXCEPT ![r].pc = "transcribe",
                              ![r].got = model']
       ELSE req' = [req EXCEPT ![r].pc = "finally",
                              ![r].raised = "get_model",
                              ![r].primary = HTTPException500(LoadError(nLoads))]
    /\ UNCHANGED <<clip, srv, envPreload, nLoads, files, nextName, running, healthN, healthResp, nRemoved>>

\* Variant of ModelAfterTranscribe: a failed inference resets the handle.
ModelAfterTranscribe_Reset(ok) == IF ok THEN model ELSE NoModel

\* lines 85-96: neither model.transcribe, nor the mapping, nor the except
\* clause assigns _model; the handle is what it was, whatever the outcome.
ModelAfterTranscribe(ok) == model

\* lines 85-96: model.transcribe(tmp_path) returns a result or raises (it
\* cannot read a file that does not exist); the result is mapped to the
\* JSON response, and any Exception becomes HTTPException(500, str(e)).
T_Transcribe(r, ok) ==
    /\ running = r
    /\ req[r].pc = "transcribe"
    /\ ok => Exists(req[r].tmp_path)
    /\ IF ~ok
       THEN req' = [req EXCEPT ![r].pc = "finally",
                              ![r].invoked = req[r].tmp_path,
                              ![r].raised = "transcribe",
                              ![r].primary = HTTPException500(InferenceError)]
       ELSE IF Serialisable(clip.result)
       THEN req' = [req EXCEPT ![r].pc = "finally",
                              ![r].invoked = req[r].tmp_path,
                              ![r].result = clip.result,
                              ![r].primary = Return200(MapResponse(clip.result))]
       ELSE req' = [req EXCEPT ![r].pc = "finally",
                              ![r].invoked = req[r].tmp_path,
                              ![r].result = clip.result,
                              ![r].raised = "mapping",
                              ![r].primary = HTTPException500(EncodeError)]
    /\ model' = ModelAfterTranscribe(ok)
    /\ UNCHANGED <<clip, srv, envPreload, nLoads, files, nextName, running, healthN, healthResp, nRemoved>>

\* Variant of Unlink: the file is left in place.
Unlink_Skip(path) == files

\* line 100: os.unlink(path) removes the file, or raises when it is gone.
Unlink(path) == files \ {path}

\* lines 98-100: the finally clause.  When os.unlink raises, its exception
\* replaces the pending return value or HTTPException and leaves the
\* handler.
T_Finally(r) ==
    /\ running = r
    /\ req[r].pc = "finally"
    /\ IF Exists(req[r].tmp_path)
       THEN /\ files' = Unlink(req[r].tmp_path)
            /\ req' = [req EXCEPT ![r].pc = "done",
                                  ![r].unlink = "ok",
                                  ![r].resp = req[r].primary]
       ELSE /\ files' = files
            /\ req' = [req EXCEPT ![r].pc = "done",
                                  ![r].unlink = "failed",
                                  ![r].resp = Unhandled(FileNotFound)]
    /\ running' = 0
    /\ UNCHANGED <<clip, srv, envPreload, model, nLoads, nextName, healthN, healthResp, nRemoved>>

\* ------------------------------------------------------------ environment
\* Another process removes a file of the temp directory (a tmp cleaner).
ExternalRemove(f) ==
    /\ f \in files
    /\ nRemoved < MaxRemove
    /\ nRemoved' = nRemoved + 1
    /\ files' = files \ {f}
    /\ UNCHANGED <<clip, srv, envPreload, model, nLoads, nextName, running, req, healthN, healthResp>>

Next ==
    \/ \E a \in BOOLEAN : Main(a)
    \/ Startup
    \/ \E ok \in BOOLEAN : Preload(ok)
    \/ Health
    \/ \E r \in Reqs, ct \in ContentTypes : T_Start(r, ct)
    \/ \E r \in Reqs, io \in {"ok", "read_fail", "write_fail"} : T_Resume(r, io)
    \/ \E r \in Reqs : T_Cancel(r)
    \/ \E r \in Reqs : T_GetModel(r)
    \/ \E r \in Reqs, ok \in BOOLEAN : T_FromPretrained(r, ok)
    \/ \E r \in Reqs, ok \in BOOLEAN : T_Transcribe(r, ok)
    \/ \E r \in Reqs : T_Finally(r)
    \/ \E f \in files : ExternalRemove(f)

Spec == Init /\ [][Next]_vars

\* ================================================================ claims
Done(r) == req[r].pc = "done"
\* r has passed get_model (it holds a model or the exception of its load).
Acquired(r) == req[r].pc \in {"transcribe", "finally", "done"} /\ req[r].io = "ok"
\* r started the first construction of the process while other requests
\* were in flight (N >= 2 overlapping first requests, handle Unloaded).
LedFirstWave(r) == req[r].loaded = 1 /\ req[r].peers # {}

\* C1: starting from an Unloaded handle, N >= 2 overlapping requests start
\* the construction exactly once in every interleaving, and when that
\* construction succeeds all of them obtain the same Ready model.  (The
\* safety part of the claim; its "eventually complete" is not needed to
\* refute it.)
C1_SingleConstruction ==
    \A r \in Reqs : LedFirstWave(r) =>
        /\ \A p \in req[r].peers : req[p].loaded = 0
        /\ req[r].got # NoModel =>
              \A p \in req[r].peers : Acquired(p) => req[p].got = req[r].got

\* C2: a request that finished writing its upload into its artifact has no
\* artifact file left when its handler has returned, whatever the exit
\* path (200, construction failure, inference or mapping failure).
C2_ArtifactDeleted ==
    \A r \in Reqs : (Done(r) /\ req[r].io = "ok") => ~Exists(req[r].tmp_path)

\* Witness of C2: one request returned 200 and another one returned the
\* 500 of a caught failure, both after writing their artifact.
C2_Witness ==
    \E r1, r2 \in Reqs :
        /\ Done(r1) /\ req[r1].io = "ok" /\ req[r1].resp.status = 200
        /\ Done(r2) /\ req[r2].io = "ok" /\ req[r2].raised # "none"
        /\ req[r2].resp.kind = "HTTPException"

\* C3: when reading the upload or writing it into the temporary file
\* fails, the request ends with a server error, the model was never
\* invoked for it, and no temporary file of the request remains.
C3_UploadFailureLeavesNothing ==
    \A r \in Reqs : (Done(r) /\ req[r].io \in {"read_fail", "write_fail"}) =>
        /\ req[r].resp.status = 500
        /\ req[r].invoked = NoFile
        /\ ~Exists(req[r].file)

\* C4: whenever model.transcribe raises for a request, the request ends
\* with status 500 whose detail is the description of that failure, never
\* with an unhandled fault, and the service keeps running.
C4_InferenceFailureIs500 ==
    \A r \in Reqs : (Done(r) /\ req[r].raised = "transcribe") =>
        /\ req[r].resp.kind # "unhandled"
        /\ req[r].resp.status = 500
        /\ req[r].resp.detail = Str(InferenceError)
        /\ srv = "serving"

\* C5: when deleting the artifact fails, the request still returns its
\* primary outcome unchanged (the 200 response, or the 500 carrying the
\* failure's description).
C5_CleanupFailureKeepsOutcome ==
    \A r \in Reqs : (Done(r) /\ req[r].unlink = "failed") =>
        req[r].resp = req[r].primary

\* C6: when a construction started by a request raises, the handle is
\* Unloaded afterwards and the request ends with a server error; a
\* construction starts only inside a caller's get_model (no retry by the
\* server itself); a request that calls get_model on an Unloaded handle
\* starts a fresh construction, and when that one returns the handle is
\* Ready and holds the model the request obtains.
C6_FailedLoadAllowsRetry ==
    [][ /\ \A r \in Reqs :
            /\ (req[r].pc = "loading" /\ req'[r].pc = "finally") =>
                  /\ model' = NoModel
                  /\ HandleState' = "Unloaded"
                  /\ nLoads' = nLoads
                  /\ req'[r].primary.status = 500
            /\ (req'[r].pc = "done" /\ req'[r].raised = "get_model") =>
                  req'[r].resp.status = 500
            /\ (req[r].pc = "get_model" /\ req'[r].pc # "get_model" /\ model = NoModel) =>
                  /\ req'[r].pc = "loading"
                  /\ nLoads' = nLoads + 1
            /\ (req[r].pc = "loading" /\ req'[r].pc = "transcribe") =>
                  /\ model' # NoModel
                  /\ HandleState' = "Ready"
                  /\ req'[r].got = model'
        /\ (srv = "preloading" /\ srv' = "exited") => model' = NoModel
        /\ nLoads' # nLoads =>
              \/ \E r \in Reqs : req[r].pc = "get_model" /\ req'[r].pc = "loading"
              \/ (srv = "startup" /\ srv' = "preloading")
      ]_vars

\* Witness of C6: a request's construction failed and it got a 500; the
\* next request started the second construction, which made the handle
\* Ready.
C6_Witness ==
    \E r1, r2 \in Reqs :
        /\ Done(r1) /\ req[r1].loaded = 1 /\ req[r1].raised = "get_model"
        /\ req[r1].resp.status = 500
        /\ req[r2].loaded = 2 /\ req[r2].got = model /\ model # NoModel
        /\ HandleState = "Ready"

\* C7: when a construction fails while N >= 2 first requests are in flight
\* against an Unloaded handle, all of them observe that same failure: none
\* starts a second construction, none returns 200, and the handle is left
\* Unloaded.  (Stated for the waiting requests whose own upload and cleanup
\* succeeded.)
C7_FailureSharedByWaiters ==
    \A r \in Reqs :
        (req[r].loaded # 0 /\ req[r].peers # {} /\ req[r].raised = "get_model") =>
            /\ \A p \in req[r].peers :
                  (req[p].io = "ok" /\ req[p].unlink # "failed") =>
                      /\ req[p].loaded = 0
                      /\ req[p].resp.status # 200
                      /\ Done(p) => req[p].resp.detail = req[r].primary.detail
            /\ model = NoModel

\* C8: once the handle is Ready, _model is never replaced or reset and no
\* further construction starts, through requests of every outcome and
\* health checks; every acquire returns that one instance.
C8_ReadyIsPermanent ==
    [][ /\ model # NoModel => (model' = model /\ nLoads' = nLoads)
        /\ model' # NoModel =>
              \A r \in Reqs : req'[r].got \in {NoModel, model'}
      ]_vars

\* Witness of C8: with the handle Ready, a health check, a failed request
\* and a successful request have been served, both requests holding the
\* handle's instance.
C8_Witness ==
    /\ model # NoModel
    /\ healthN > 0
    /\ \E r1, r2 \in Reqs :
        /\ Done(r1) /\ req[r1].raised = "transcribe" /\ req[r1].got = model
        /\ Done(r2) /\ req[r2].resp.status = 200 /\ req[r2].got = model

\* C9: GET /health returns the fixed body (status "ok", the model
\* identifier) in every handle state, and handling it changes neither the
\* handle, nor the number of constructions, nor any file or request.
C9_HealthIsPure ==
    [][ healthN' # healthN =>
          /\ healthResp' = [status |-> "ok", model |-> "parakeet-tdt-0.6b-v3"]
          /\ model' = model
          /\ HandleState' = HandleState
          /\ nLoads' = nLoads
          /\ files' = files
          /\ req' = req
      ]_vars

\* Witness of C9: a health check was answered while the model had never
\* been loaded and a request's artifact was on disk.
C9_Witness ==
    /\ healthN > 0
    /\ healthResp = [status |-> "ok", model |-> "parakeet-tdt-0.6b-v3"]
    /\ model = NoModel /\ nLoads = 0
    /\ \E r \in Reqs : req[r].pc = "await_read" /\ Exists(req[r].file)

\* The result has no segment data: no attribute, None, or an empty list.
LacksSegments(result) ==
    \/ ~result.hasSegments
    \/ result.segments.t = "None"
    \/ (result.segments.t = "list" /\ Len(result.segments.v) = 0)

HasSuffix(filename) ==
    filename.has /\ Len(filename.name) > 0 /\ PathSuffix(filename.name) # <<>>

\* C12: the artifact's extension is the filename's suffix when the filename
\* has one, and the default .webm in every other case: no filename, or a
\* filename that carries no suffix.
C12_SuffixOrDefault ==
    \A r \in Reqs : req[r].file # NoFile =>
        req[r].file.suffix =
            IF HasSuffix(clip.filename)
            THEN PathSuffix(clip.filename.name)
            ELSE <<".", "w", "e", "b", "m">>

\* C13: in every reachable state at most one model construction is in
\* progress, whether started by the startup preload, by a first request or
\* by a retry after a failed construction.
C13_AtMostOneConstruction ==
    Cardinality(Loaders) + (IF srv = "preloading" THEN 1 ELSE 0) <= 1

\* Witness of C13: a construction failed while a second request was in
\* flight, and that second request is now inside its own construction.
C13_Witness ==
    \E r1, r2 \in Reqs :
        /\ req[r1].raised = "get_model"
        /\ r2 \in req[r1].peers
        /\ req[r2].pc = "loading"

\* C14: when a request is abandoned (its handler cancelled) after its
\* artifact was created, also while it awaits the upload bytes, the
\* artifact is deleted, and the abandoned request does not keep the event
\* loop from the other requests.
C14_AbandonedArtifactDeleted ==
    \A r \in Reqs : (Done(r) /\ req[r].io = "cancelled") =>
        /\ ~Exists(req[r].file)
        /\ running # r

\* r has entered the section that acquires and invokes the model.
PastUpload(r) ==
    \/ req[r].pc \in {"get_model", "loading", "transcribe", "finally"}
    \/ req[r].loaded # 0
    \/ req[r].got # NoModel
    \/ req[r].invoked # NoFile

\* C15: a request acquires and invokes the model only after its complete
\* upload was written to the artifact and the file was closed; the model
\* is never invoked on a partial write.
C15_WriteBeforeInference ==
    \A r \in Reqs : PastUpload(r) =>
        /\ req[r].io = "ok"
        /\ ~req[r].isOpen
        /\ req[r].tmp_path = req[r].file

\* Witness of C15: the model was invoked on a request's artifact and
\* returned a result.
C15_Witness ==
    \E r \in Reqs :
        /\ req[r].pc = "finally"
        /\ req[r].invoked = req[r].file /\ req[r].file # NoFile
        /\ req[r].primary.kind = "return"

\* C16: artifacts are never shared.  Each request creates exactly one
\* artifact, the artifacts of distinct requests in flight are distinct
\* files, a request invokes the model only on its own artifact, and the
\* only file a request deletes is its own artifact.
C16_ArtifactsNotShared ==
    [][ /\ \A r, p \in InFlight' :
              r # p => req'[r].file # req'[p].file
        /\ files' \ files \subseteq
              { req'[r].file : r \in { q \in Reqs : req[q].pc = "new" /\ req'[q].pc # "new" } }
        /\ \A r \in Reqs :
              /\ req'[r].invoked \in {NoFile, req'[r].file}
              /\ (req[r].pc = "new" /\ req'[r].pc # "new") =>
                    /\ req'[r].file # NoFile
                    /\ files' \ files = {req'[r].file}
              /\ req[r].pc # "new" => req'[r].file = req[r].file
              /\ (req[r].pc = "finally" /\ req'[r].pc = "done") =>
                    files \ files' \subseteq {req[r].file}
      ]_vars

\* Witness of C16: two requests are in flight, each with its own file on
\* disk, and one of them has invoked the model on its own artifact.
C16_Witness ==
    \E r, p \in Reqs :
        /\ r # p
        /\ req[r].pc = "finally" /\ req[r].invoked = req[r].file
        /\ req[p].pc = "await_read"
        /\ Exists(req[r].file) /\ Exists(req[p].file)
        /\ req[r].file # req[p].file

\* C17: with the preload flag set, startup constructs the model through
\* get_model before any request is handled, so that the handle is Ready
\* when serving begins and no request starts a construction; with the
\* flag unset, startup starts no construction and leaves the handle
\* Unloaded (every construction is then started by a request).
C17_PreloadAtStartup ==
    /\ srv # "serving" => (\A r \in Reqs : req[r].pc = "new") /\ healthN = 0
    /\ srv = "startup" => nLoads = 0 /\ model = NoModel
    /\ srv = "preloading" => envPreload /\ nLoads = 1 /\ HandleState = "Loading"
    /\ (srv = "serving" /\ envPreload) =>
          /\ model # NoModel /\ nLoads = 1
          /\ \A r \in Reqs : req[r].loaded = 0 /\ req[r].got \in {NoModel, model}
    /\ (srv = "serving" /\ ~envPreload) =>
          /\ nLoads = Cardinality({ r \in Reqs : req[r].loaded # 0 })
          /\ (\A r \in Reqs : req[r].loaded = 0) => model = NoModel

\* Witness of C17: the server was started with the flag set, and a request
\* was answered 200 with the preloaded model, no second construction
\* having started.
C17_Witness ==
    /\ envPreload /\ srv = "serving" /\ nLoads = 1
    /\ \E r \in Reqs :
          Done(r) /\ req[r].resp.status = 200 /\ req[r].got = model /\ req[r].loaded = 0

C19_FailedInferenceKeepsHandle ==
    [][ \A r \in Reqs :
          /\ (req[r].pc = "transcribe" /\ req'[r].raised = "transcribe") =>
                /\ model # NoModel
                /\ model' = model
                /\ model' = req[r].got
                /\ nLoads' = nLoads
          /\ ((\E q \in Reqs : req[q].raised = "transcribe")
                /\ req[r].pc = "get_model" /\ req'[r].pc # "get_model") =>
                /\ req'[r].pc = "transcribe"
                /\ req'[r].loaded = 0
                /\ nLoads' = nLoads
                /\ \A q \in Reqs : req[q].raised = "transcribe" => req'[r].got = req[q].got
      ]_vars

\* Witness of C19: the request that constructed the model failed in
\* model.transcribe, and the next request was answered 200 with the same
\* instance and without a construction of its own.
C19_Witness ==
    \E r, p \in Reqs :
        /\ Done(r) /\ req[r].loaded = 1 /\ req[r].raised = "transcribe"
        /\ Done(p) /\ req[p].loaded = 0 /\ req[p].resp.status = 200
        /\ req[p].got = req[r].got /\ req[p].got = model
        /\ nLoads = 1

\* r is between model acquisition and artifact deletion (lines 82-100).
InSection(r) == req[r].pc \in {"get_model", "loading", "transcribe", "finally"}

\* C20: the section from model acquisition to artifact deletion has no
\* suspension point.  At most one request is inside it, that request holds
\* the event loop, and while a construction or an inference is in progress
\* no health check is served and no other request takes a step.
C20_SectionIsAtomic ==
    [][ /\ \A r, p \in Reqs : (InSection(r)' /\ InSection(p)') => r = p
        /\ \A r \in Reqs : InSection(r)' => running' = r
        /\ \A r \in Reqs : req[r].pc \in {"loading", "transcribe"} =>
              /\ healthN' = healthN
              /\ \A p \in Reqs \ {r} : req'[p] = req[p]
              /\ InSection(r)'
      ]_vars

\* Witness of C20: an inference is in progress while another request is
\* suspended in its upload read and a health check is still to come.
C20_Witness ==
    \E r, p \in Reqs :
        /\ req[r].pc = "transcribe" /\ running = r
        /\ req[p].pc = "await_read"
        /\ healthN < MaxHealth

====
